---- MODULE Spec2Model ----
(***************************************************************************)
(* colorlog_cpp: the synchronous Logger and the AsyncLogger of             *)
(* include/colorlog.hpp, modelled as a state machine.                      *)
(*                                                                         *)
(* A stream (std::cerr, a file) is the sequence of the chunks inserted     *)
(* into it with operator<<, in insertion order; std::endl is the chunk     *)
(* "\n".  The escape character is written ESC.                             *)
(***************************************************************************)
EXTENDS Integers, Sequences, FiniteSets, TLC

(***************************************************************************)
(* Bounds of the model.                                                    *)
(***************************************************************************)
\* number of Logger operations (log calls and setters) in one behaviour
MaxOps == 2
\* number of AsyncLogger::log calls in one behaviour
MaxEntries == 3
\* number of operations on the error-handler registry in one behaviour
MaxErrOps == 3

\* Logger::log calls that the threads of the concurrent specification make
MaxConcCalls == 2

\* handle_error calls that the threads make
MaxHandleErrors == 1

\* Logger operations of the specification of set_log_file
MaxFileOps == 3

\* Logger operations of the specification of the colors and the formatter
MaxCfgOps == 3

\* applications of the default formatter, and the largest line number given to it
MaxFormatterCalls == 2
MaxLine == 2

(***************************************************************************)
(* Types of the program.                                                   *)
(***************************************************************************)
\* the enumerators with trace declared first
LogLevel_TraceFirst == <<"trace", "debug", "info", "warn", "error", "fatal", "unknown">>

\* enum class LogLevel, in declaration order
LogLevel == <<"debug", "info", "warn", "error", "fatal", "trace", "unknown">>

Levels == {LogLevel[i] : i \in 1..Len(LogLevel)}

\* static_cast<int>(level): the position of the enumerator, from 0
Rank(level) == (CHOOSE i \in 1..Len(LogLevel) : LogLevel[i] = level) - 1

\* enum class OutputMode
OutputMode == {"Console", "File", "Both"}

\* the LOG_LEVEL_* macros
LOG_LEVEL_DEBUG == 0
LOG_LEVEL_INFO == 1
LOG_LEVEL_WARN == 2
LOG_LEVEL_ERROR == 3
LOG_LEVEL_FATAL == 4
LOG_LEVEL_TRACE == 5

\* ColorDefs: the ANSI code of each level
ColorDefs ==
    [level \in Levels |->
        CASE level = "debug"   -> "ESC[36m"
          [] level = "info"    -> "ESC[1;33m"
          [] level = "warn"    -> "ESC[33m"
          [] level = "error"   -> "ESC[1;31m"
          [] level = "fatal"   -> "ESC[35m"
          [] level = "trace"   -> "ESC[32m"
          [] level = "unknown" -> "ESC[34m"]

\* the reset sequence Logger::log writes after a colored level name
ResetCode == "ESC[0m"

(***************************************************************************)
(* Inputs the environment supplies.                                        *)
(***************************************************************************)
\* values a build can give the LOG_LEVEL macro (-DLOG_LEVEL=n)
FloorInputs == 0..6

\* a formatter is user code: the default one, the tests' custom_formatter,
\* one that throws a std::exception, one that throws something else
DefaultFormatterId == "default"
CustomFormatterId == "custom"
ThrowsStdId == "throws_std"
ThrowsOtherId == "throws_other"

\* a formatter that calls AsyncLogger::log on the AsyncLogger it belongs to
ReentrantId == "reentrant"

\* a formatter that throws a std::exception for the message "m2" and formats
\* every other record as the default formatter does
ThrowsOnM2Id == "throws_on_m2"
FormatterInputs == {DefaultFormatterId, CustomFormatterId, ThrowsStdId, ThrowsOtherId}

\* paths of the file system: two that open for append, one that does not
PathA == "a.log"
PathB == "b.log"
BadPath == "/no/such/dir/x.log"
Paths == {PathA, PathB}
Openable(path) == path \in Paths

\* (file, line) locations and messages passed to log; a message is the
\* sequence of the items operator<< inserts (a plain string is one item)
LocationInputs == {<<"", 0>>, <<"t.cpp", 10>>}
MsgInputs == {<<"m", "1">>}

\* the entries producers hand to AsyncLogger::log
EntryInputs ==
    [level : {"info", "error"}, file : {"t.cpp"}, line : {10}, msg : {"m1", "m2"}]

\* exceptions handed to handle_error: typeid(e).name() and e.what()
RuntimeErrorKind == "St13runtime_error"
LogicErrorKind == "St11logic_error"
KindInputs == {RuntimeErrorKind, LogicErrorKind}
ExceptionInputs == [kind : KindInputs, what : {"boom"}]
ContextInputs == {"ctx"}

\* handlers are user code: the tests' custom_error_handler, one that only
\* returns, one that throws; BuiltinHandler is the constructor's lambda
BuiltinHandler == "builtin"
CustomErrorHandler == "custom_error_handler"
QuietHandler == "quiet_handler"
ThrowingHandler == "throwing_handler"
HandlerInputs == {CustomErrorHandler, QuietHandler, ThrowingHandler}

\* handlers_.find(key) == handlers_.end()
NoHandler == "none"

\* the frames backtrace_symbols returns, an opaque provider
BacktraceSymbols == <<"frame0">>

\* the threads that call Logger::log on one Logger; the levels they log at
Threads == {"t1", "t2"}
ThreadLevels == {"info", "error"}

\* the codes the application gives to set_log_level_color
ColorInputs == {"ESC[95m"}

\* the arguments given to the default formatter: file, line, msg
FormatterFileInputs == {"", "t.cpp"}
FormatterLineInputs == (0 - MaxLine)..MaxLine
FormatterMsgInputs == {"", "m1"}

\* what a thread that is not inside handle_error is handling
NoException == [kind |-> "", what |-> ""]

\* the owner of mutex_ when no thread holds it
NoThread == "nobody"

(***************************************************************************)
(* State.                                                                  *)
(***************************************************************************)
VARIABLES
    LOG_LEVEL,            \* the compile-time floor
    is_global_colored,    \* colorlog::is_global_colored
    is_stderr_terminal_,  \* TerminalCache::is_stderr_terminal_
    log_level_,           \* Logger::log_level_
    output_mode_,         \* Logger::output_mode_
    formatter_,           \* Logger::formatter_
    log_level_colors_,    \* Logger::log_level_colors_ (the ANSI codes)
    log_file_,            \* Logger::log_file_: [is_open, path, fail]
    cerr,                 \* chunks written to std::cerr
    fs,                   \* content of each file of the file system
    nops,                 \* Logger operations the application has performed
    calls,                \* the Logger::log calls so far and how each ended
    formatter_calls,      \* invocations of formatter_ so far
    mutex_locks,          \* acquisitions of Logger::mutex_ so far
    log_queue_,           \* AsyncLogger::log_queue_
    queue_mutex_,         \* AsyncLogger::queue_mutex_: "free" or its holder
    stop_thread_,         \* AsyncLogger::stop_thread_
    cv_signal,            \* cv_: a notification is pending for the waiting worker
    wpc,                  \* where the worker thread is in processQueue
    dpc,                  \* where the owner is in ~AsyncLogger
    enqueued,             \* every entry emplaced so far, in emplace order
    forwarded,            \* every entry handed to logger_.log so far, in order
    enqueued_at_stop,     \* Len(enqueued) when stop_thread_ was set, else -1
    handlers_,            \* Logger::handlers_: key -> handler, or NoHandler
    default_handler_,     \* Logger::default_handler_
    handler_calls,        \* the handler invocations so far: [handler, what]
    he_calls,             \* the handle_error calls so far and how each ended
    registrations,        \* the register / set_default calls so far
    mutex_,               \* Logger::mutex_: the thread that holds it, or NoThread
    tpc,                  \* where each thread is in Logger::log
    tcall,                \* each thread's call: its locals and what is left to write
    cerr_by,              \* for each chunk of cerr, the call that wrote it
    fs_by,                \* for each chunk of each file, the call that wrote it
    handling,             \* for each thread inside handle_error, its exception
    set_file_calls,       \* the set_log_file calls so far: [filename, was_open, was_path]
    formatted             \* the calls of the default formatter: [file, line, msg, result]

globalVars == <<LOG_LEVEL, is_global_colored, is_stderr_terminal_>>

configVars == <<log_level_, output_mode_, formatter_, log_level_colors_, log_file_>>

sinkVars == <<cerr, fs, calls, formatter_calls, mutex_locks>>

asyncVars == <<log_queue_, queue_mutex_, stop_thread_, cv_signal, wpc, dpc,
               enqueued, forwarded, enqueued_at_stop>>

handlerVars == <<handlers_, default_handler_, handler_calls, he_calls, registrations>>

threadVars == <<mutex_, tpc, tcall, cerr_by, fs_by, handling>>

fileVars == <<set_file_calls>>

extVars == <<handlerVars, threadVars, fileVars, formatted>>

vars == <<globalVars, configVars, sinkVars, nops, asyncVars, extVars>>

(***************************************************************************)
(* Pure functions of the program.                                          *)
(***************************************************************************)
\* operator<< of a small int: its decimal text
RECURSIVE NatToString(_)
NatToString(n) ==
    LET d == n % 10
        s == CASE d = 0 -> "0" [] d = 1 -> "1" [] d = 2 -> "2" [] d = 3 -> "3"
               [] d = 4 -> "4" [] d = 5 -> "5" [] d = 6 -> "6" [] d = 7 -> "7"
               [] d = 8 -> "8" [] d = 9 -> "9"
    IN  IF n < 10 THEN s ELSE NatToString(n \div 10) \o s

IntToString(n) == IF n < 0 THEN "-" \o NatToString(0 - n) ELSE NatToString(n)

\* Logger::log, the rendering of msg into oss: the items in iteration order
RECURSIVE Render(_)
Render(msg) == IF msg = <<>> THEN "" ELSE Head(msg) \o Render(Tail(msg))

\* a default formatter that takes line 0 for a location
DefaultFormatter_FromLineZero(file, line, msg) ==
    (IF file # "" /\ line >= 0 THEN file \o ":" \o IntToString(line) \o " " ELSE "")
        \o msg

\* LoggerConfig::formatter, the default formatter
DefaultFormatter(file, line, msg) ==
    (IF file # "" /\ line > 0 THEN file \o ":" \o IntToString(line) \o " " ELSE "")
        \o msg

\* custom_formatter of the tests
custom_formatter(file, line, msg) ==
    "[" \o file \o ":" \o IntToString(line) \o "] " \o msg

\* what calling the formatter f gives: a string, or an exception in flight
CallFormatter(f, file, line, msg) ==
    CASE f = DefaultFormatterId -> [kind |-> "value", text |-> DefaultFormatter(file, line, msg)]
      [] f = CustomFormatterId  -> [kind |-> "value", text |-> custom_formatter(file, line, msg)]
      [] f = ThrowsStdId        -> [kind |-> "std_exception", text |-> "bad format"]
      [] f = ThrowsOtherId      -> [kind |-> "other_exception", text |-> ""]
      [] f = ThrowsOnM2Id       ->
            IF msg = "m2" THEN [kind |-> "std_exception", text |-> "bad format"]
            ELSE [kind |-> "value", text |-> DefaultFormatter(file, line, msg)]

\* Logger::logLevelToString
logLevelToString(level) ==
    CASE level = "debug"   -> "DEBUG"
      [] level = "info"    -> "INFO"
      [] level = "warn"    -> "WARNING"
      [] level = "error"   -> "ERROR"
      [] level = "fatal"   -> "FATAL"
      [] level = "trace"   -> "TRACE"
      [] level = "unknown" -> "UNKNOWN"

\* TerminalCache::is_terminal; a stream is "cerr" or "file"
is_terminal(os) == IF os = "cerr" THEN is_stderr_terminal_ ELSE FALSE

\* a color test that ignores the global flag
check_color_IgnoresFlag(stream) == is_terminal(stream)

\* check_color
check_color(stream) == is_global_colored /\ is_terminal(stream)

\* apply_code: the chunks it inserts into the stream
apply_code(stream, code) == IF check_color(stream) THEN <<code>> ELSE <<>>

\* Logger::applyLogLevelColor
applyLogLevelColor(os, level) == apply_code(os, log_level_colors_[level])

\* a stream selection that never selects the file
getLogStream_AlwaysCerr == "cerr"

\* Logger::getLogStream
getLogStream ==
    IF output_mode_ = "File" /\ log_file_.is_open THEN "file"
    ELSE IF output_mode_ = "Both" /\ log_file_.is_open THEN "file"
    ELSE "cerr"

\* a floor test that is off by one
BelowFloor_OffByOne(level) == Rank(level) < LOG_LEVEL - 1

\* Logger::log, the floor test that returns before anything else
BelowFloor(level) == Rank(level) < LOG_LEVEL

\* a line whose message is cut at its last character
StreamLine_Truncated(logStream, level, formattedMsg) ==
    <<"[", logLevelToString(level), "] ",
      SubSeq(formattedMsg, 1, Len(formattedMsg) - 1), "\n">>

\* Logger::log, the chunks of the line written to logStream
StreamLine(logStream, level, formattedMsg) ==
    <<"[">>
    \o (IF check_color(logStream)
        THEN applyLogLevelColor(logStream, level) \o <<logLevelToString(level), ResetCode>>
        ELSE <<logLevelToString(level)>>)
    \o <<"] ", formattedMsg, "\n">>

\* Logger::log, the chunks of the extra line written to log_file_ in mode Both
FileLine(level, formattedMsg) ==
    <<"[", logLevelToString(level), "] ", formattedMsg, "\n">>

\* operator<< on log_file_: a stream with failbit set drops what is inserted
WriteFile(files, chunks) ==
    IF log_file_.is_open /\ ~log_file_.fail
    THEN [files EXCEPT ![log_file_.path] = @ \o chunks]
    ELSE files

\* std::ofstream::open(filename, out | app) on log_file_
OpenFile(filename) ==
    IF log_file_.is_open THEN [log_file_ EXCEPT !.fail = TRUE]
    ELSE IF Openable(filename) THEN [is_open |-> TRUE, path |-> filename, fail |-> FALSE]
    ELSE [log_file_ EXCEPT !.fail = TRUE]

\* a Logger::log that in mode Both, the file not being open, writes the
\* second line to std::cerr
LogEffect_FallbackTwice(level, file, line, msg) ==
    LET r == CallFormatter(formatter_, file, line, Render(msg))
        logStream == getLogStream
        first == StreamLine(logStream, level, r.text)
        cerr0 == IF logStream = "cerr" THEN cerr \o first ELSE cerr
        cerr1 == IF output_mode_ = "Both" /\ ~log_file_.is_open
                 THEN cerr0 \o FileLine(level, r.text) ELSE cerr0
        fs1 == IF logStream = "file" THEN WriteFile(fs, first) ELSE fs
        fs2 == IF output_mode_ = "Both" /\ log_file_.is_open
               THEN WriteFile(fs1, FileLine(level, r.text)) ELSE fs1
    IN  IF BelowFloor(level)
        THEN [cerr |-> cerr, fs |-> fs, formatter |-> 0, lock |-> 0,
              outcome |-> "dropped"]
        ELSE CASE r.kind = "value" ->
                    [cerr |-> cerr1, fs |-> fs2, formatter |-> 1, lock |-> 1,
                     outcome |-> "written"]
               [] r.kind = "std_exception" ->
                    [cerr |-> cerr \o <<"Logging exception: ", r.text, "\n">>,
                     fs |-> fs, formatter |-> 1, lock |-> 0, outcome |-> "caught"]
               [] r.kind = "other_exception" ->
                    [cerr |-> cerr, fs |-> fs, formatter |-> 1, lock |-> 0,
                     outcome |-> "propagated"]

\* Logger::log as a function of the state: the streams after the call, how
\* the call ended, and whether the formatter and the mutex were used
LogEffect(level, file, line, msg) ==
    LET r == CallFormatter(formatter_, file, line, Render(msg))
        logStream == getLogStream
        first == StreamLine(logStream, level, r.text)
        cerr1 == IF logStream = "cerr" THEN cerr \o first ELSE cerr
        fs1 == IF logStream = "file" THEN WriteFile(fs, first) ELSE fs
        fs2 == IF output_mode_ = "Both" /\ log_file_.is_open
               THEN WriteFile(fs1, FileLine(level, r.text)) ELSE fs1
    IN  IF BelowFloor(level)
        THEN [cerr |-> cerr, fs |-> fs, formatter |-> 0, lock |-> 0,
              outcome |-> "dropped"]
        ELSE CASE r.kind = "value" ->
                    [cerr |-> cerr1, fs |-> fs2, formatter |-> 1, lock |-> 1,
                     outcome |-> "written"]
               [] r.kind = "std_exception" ->
                    [cerr |-> cerr \o <<"Logging exception: ", r.text, "\n">>,
                     fs |-> fs, formatter |-> 1, lock |-> 0, outcome |-> "caught"]
               [] r.kind = "other_exception" ->
                    [cerr |-> cerr, fs |-> fs, formatter |-> 1, lock |-> 0,
                     outcome |-> "propagated"]

\* the record kept of one Logger::log call
CallRecord(level, file, line, msg, outcome) ==
    [level |-> level, file |-> file, line |-> line, msg |-> Render(msg),
     outcome |-> outcome]

(***************************************************************************)
(* The synchronous Logger.                                                 *)
(***************************************************************************)
\* the locals of a thread that is not inside Logger::log
NoCall == [id |-> 0, level |-> "", file |-> "", line |-> 0, msg |-> <<>>,
           text |-> "", stream |-> "", pending |-> <<>>]

\* Logger::Logger(config): the members after construction
LoggerInit(levels, modes, formatters, names) ==
    /\ log_level_ \in levels
    /\ output_mode_ \in modes
    /\ formatter_ \in formatters
    /\ log_level_colors_ = ColorDefs
    /\ \E name \in names :
          log_file_ = IF name = "" THEN [is_open |-> FALSE, path |-> "", fail |-> FALSE]
                      ELSE IF Openable(name)
                           THEN [is_open |-> TRUE, path |-> name, fail |-> FALSE]
                           ELSE [is_open |-> FALSE, path |-> "", fail |-> TRUE]
    /\ cerr = <<>>
    /\ fs = [p \in Paths |-> <<>>]
    /\ nops = 0
    /\ calls = <<>>
    /\ formatter_calls = 0
    /\ mutex_locks = 0
    /\ handlers_ = [key \in KindInputs |-> NoHandler]
    /\ default_handler_ = BuiltinHandler
    /\ handler_calls = <<>>
    /\ he_calls = <<>>
    /\ registrations = <<>>
    /\ mutex_ = NoThread
    /\ tpc = [t \in Threads |-> "idle"]
    /\ tcall = [t \in Threads |-> NoCall]
    /\ cerr_by = <<>>
    /\ fs_by = [p \in Paths |-> <<>>]
    /\ handling = [t \in Threads |-> NoException]
    /\ set_file_calls = <<>>
    /\ formatted = <<>>

\* no AsyncLogger exists
NoAsync ==
    /\ log_queue_ = <<>>
    /\ queue_mutex_ = "free"
    /\ stop_thread_ = FALSE
    /\ cv_signal = FALSE
    /\ wpc = "absent"
    /\ dpc = "absent"
    /\ enqueued = <<>>
    /\ forwarded = <<>>
    /\ enqueued_at_stop = -1

\* a Logger built from a LoggerConfig, in a build with any floor
Init ==
    /\ LOG_LEVEL \in FloorInputs
    /\ is_global_colored = TRUE
    /\ is_stderr_terminal_ \in BOOLEAN
    /\ LoggerInit({"info", "debug"}, OutputMode, FormatterInputs, {"", PathA, BadPath})
    /\ NoAsync

\* Logger::log(level, file, line, msg)
Log(level, file, line, msg) ==
    LET e == LogEffect(level, file, line, msg) IN
    /\ wpc = "absent"
    /\ nops < MaxOps
    /\ nops' = nops + 1
    /\ cerr' = e.cerr
    /\ fs' = e.fs
    /\ formatter_calls' = formatter_calls + e.formatter
    /\ mutex_locks' = mutex_locks + e.lock
    /\ calls' = Append(calls, CallRecord(level, file, line, msg, e.outcome))
    /\ UNCHANGED <<globalVars, extVars, configVars, asyncVars>>

\* Logger::set_log_level
set_log_level(level) ==
    /\ wpc = "absent"
    /\ nops < MaxOps
    /\ nops' = nops + 1
    /\ log_level_' = level
    /\ UNCHANGED <<globalVars, extVars, output_mode_, formatter_, log_level_colors_, log_file_,
                   sinkVars, asyncVars>>

Next ==
    \/ \E level \in Levels, loc \in LocationInputs, msg \in MsgInputs :
          Log(level, loc[1], loc[2], msg)
    \/ \E level \in Levels : set_log_level(level)

Spec == Init /\ [][Next]_vars

(***************************************************************************)
(* The AsyncLogger: producers, the worker thread, the destructor.          *)
(***************************************************************************)
\* an emplace at the wrong end
Emplace_AtFront(queue, entry) == <<entry>> \o queue

\* std::queue::emplace, front and pop
Emplace(queue, entry) == Append(queue, entry)

Front(queue) == Head(queue)

\* a pop that leaves the failed entry at the front
Pop_Nothing(queue) == queue

Pop(queue) == Tail(queue)

\* a wait predicate that looks at the stop flag only
WaitPredicate_StopOnly == stop_thread_

\* processQueue, the predicate of cv_.wait
WaitPredicate == log_queue_ # <<>> \/ stop_thread_

\* an inner loop that gives up as soon as stop is requested
QueueNotEmpty_UnlessStop(queue) == queue # <<>> /\ ~stop_thread_

\* processQueue, the test of the inner while loop
QueueNotEmpty(queue) == queue # <<>>

\* a notification that reaches nobody
Notify_Dropped == cv_signal

\* notify_one / notify_all: only a thread blocked in wait receives it
Notify == IF wpc = "wait" THEN TRUE ELSE cv_signal

\* AsyncLogger::AsyncLogger(config): the default build, the worker started
InitAsync ==
    /\ LOG_LEVEL = LOG_LEVEL_DEBUG
    /\ is_global_colored = TRUE
    /\ is_stderr_terminal_ = FALSE
    /\ LoggerInit({"info"}, {"Console"}, FormatterInputs \cup {ThrowsOnM2Id}, {""})
    /\ log_queue_ = <<>>
    /\ queue_mutex_ = "free"
    /\ stop_thread_ = FALSE
    /\ cv_signal = FALSE
    /\ wpc = "top"
    /\ dpc = "alive"
    /\ enqueued = <<>>
    /\ forwarded = <<>>
    /\ enqueued_at_stop = -1

\* the process runs: std::terminate has not been called, and the
\* AsyncLogger has not been destroyed
Running == wpc \notin {"absent", "terminated"} /\ dpc # "joined"

\* AsyncLogger::log(level, file, line, msg), called by any thread
AsyncLog(entry) ==
    /\ Running
    /\ Len(enqueued) < MaxEntries
    /\ queue_mutex_ = "free"
    /\ log_queue_' = Emplace(log_queue_, entry)
    /\ cv_signal' = Notify
    /\ enqueued' = Append(enqueued, entry)
    /\ UNCHANGED <<globalVars, extVars, configVars, sinkVars, nops, queue_mutex_, stop_thread_,
                   wpc, dpc, forwarded, enqueued_at_stop>>

\* processQueue: take queue_mutex_ at the top of the loop and enter cv_.wait,
\* which returns at once when its predicate holds and else releases the mutex
WorkerLock ==
    /\ Running
    /\ wpc = "top"
    /\ queue_mutex_ = "free"
    /\ IF WaitPredicate
       THEN wpc' = "drain" /\ queue_mutex_' = "worker"
       ELSE wpc' = "wait" /\ queue_mutex_' = "free"
    /\ UNCHANGED <<globalVars, extVars, configVars, sinkVars, nops, log_queue_, stop_thread_,
                   cv_signal, dpc, enqueued, forwarded, enqueued_at_stop>>

\* processQueue: a notification ends the wait; the mutex is taken again and
\* the predicate tested again
WorkerWake ==
    /\ Running
    /\ wpc = "wait"
    /\ cv_signal
    /\ queue_mutex_ = "free"
    /\ cv_signal' = FALSE
    /\ IF WaitPredicate
       THEN wpc' = "drain" /\ queue_mutex_' = "worker"
       ELSE wpc' = "wait" /\ queue_mutex_' = "free"
    /\ UNCHANGED <<globalVars, extVars, configVars, sinkVars, nops, log_queue_, stop_thread_,
                   dpc, enqueued, forwarded, enqueued_at_stop>>

\* processQueue: the inner loop finds an entry and calls logger_.log on it
WorkerBeginLog ==
    /\ Running
    /\ wpc = "drain"
    /\ QueueNotEmpty(log_queue_)
    /\ wpc' = "in_log"
    /\ forwarded' = Append(forwarded, Front(log_queue_))
    /\ UNCHANGED <<globalVars, extVars, configVars, sinkVars, nops, log_queue_, queue_mutex_,
                   stop_thread_, cv_signal, dpc, enqueued, enqueued_at_stop>>

\* processQueue: logger_.log returns and the entry is popped; an exception
\* that leaves logger_.log leaves the thread function: std::terminate
WorkerEndLog ==
    LET entry == Front(log_queue_)
        e == LogEffect(entry.level, entry.file, entry.line, <<entry.msg>>)
    IN  /\ Running
        /\ wpc = "in_log"
        /\ cerr' = e.cerr
        /\ fs' = e.fs
        /\ formatter_calls' = formatter_calls + e.formatter
        /\ mutex_locks' = mutex_locks + e.lock
        /\ calls' = Append(calls, CallRecord(entry.level, entry.file, entry.line,
                                             <<entry.msg>>, e.outcome))
        /\ IF e.outcome = "propagated"
           THEN wpc' = "terminated" /\ UNCHANGED log_queue_
           ELSE wpc' = "drain" /\ log_queue_' = Pop(log_queue_)
        /\ UNCHANGED <<globalVars, extVars, configVars, nops, queue_mutex_, stop_thread_,
                       cv_signal, dpc, enqueued, forwarded, enqueued_at_stop>>

\* processQueue: the inner loop is over; break if stop_thread_, else loop.
\* Either way the unique_lock goes out of scope.
WorkerCheckStop ==
    /\ Running
    /\ wpc = "drain"
    /\ ~QueueNotEmpty(log_queue_)
    /\ wpc' = IF stop_thread_ THEN "done" ELSE "top"
    /\ queue_mutex_' = "free"
    /\ UNCHANGED <<globalVars, extVars, configVars, sinkVars, nops, log_queue_, stop_thread_,
                   cv_signal, dpc, enqueued, forwarded, enqueued_at_stop>>

\* ~AsyncLogger: stop_thread_ = true under queue_mutex_
DtorSetStop ==
    /\ Running
    /\ dpc = "alive"
    /\ queue_mutex_ = "free"
    /\ stop_thread_' = TRUE
    /\ dpc' = "stop_set"
    /\ enqueued_at_stop' = Len(enqueued)
    /\ UNCHANGED <<globalVars, extVars, configVars, sinkVars, nops, log_queue_, queue_mutex_,
                   cv_signal, wpc, enqueued, forwarded>>

\* ~AsyncLogger: cv_.notify_all()
DtorNotify ==
    /\ Running
    /\ dpc = "stop_set"
    /\ cv_signal' = Notify
    /\ dpc' = "notified"
    /\ UNCHANGED <<globalVars, extVars, configVars, sinkVars, nops, log_queue_, queue_mutex_,
                   stop_thread_, wpc, enqueued, forwarded, enqueued_at_stop>>

\* ~AsyncLogger: worker_thread_.join() returns once the worker has exited
DtorJoin ==
    /\ dpc = "notified"
    /\ wpc = "done"
    /\ dpc' = "joined"
    /\ UNCHANGED <<globalVars, extVars, configVars, sinkVars, nops, log_queue_, queue_mutex_,
                   stop_thread_, cv_signal, wpc, enqueued, forwarded, enqueued_at_stop>>

NextAsync ==
    \/ \E entry \in EntryInputs : AsyncLog(entry)
    \/ WorkerLock
    \/ WorkerWake
    \/ WorkerBeginLog
    \/ WorkerEndLog
    \/ WorkerCheckStop
    \/ DtorSetStop
    \/ DtorNotify
    \/ DtorJoin

SpecAsync == InitAsync /\ [][NextAsync]_vars

\* the scheduler runs every thread that can take a step: the worker thread
\* in each position of processQueue, and the owner blocked in join
WorkerFairness ==
    /\ WF_vars(WorkerLock)
    /\ WF_vars(WorkerWake)
    /\ WF_vars(WorkerBeginLog)
    /\ WF_vars(WorkerEndLog)
    /\ WF_vars(WorkerCheckStop)
    /\ WF_vars(DtorJoin)

SpecAsyncFair == SpecAsync /\ WorkerFairness

(***************************************************************************)
(* The error-handler registry of the Logger.                               *)
(***************************************************************************)
\* Logger::log as a step of the caller: the streams and the records after it
LogCall(level, file, line, msg) ==
    LET e == LogEffect(level, file, line, msg) IN
    /\ cerr' = e.cerr
    /\ fs' = e.fs
    /\ formatter_calls' = formatter_calls + e.formatter
    /\ mutex_locks' = mutex_locks + e.lock
    /\ calls' = Append(calls, CallRecord(level, file, line, msg, e.outcome))

\* Logger::log_stack_trace: the chunks it writes to std::cerr
RECURSIVE StackTraceLines(_)
StackTraceLines(messages) ==
    IF messages = <<>> THEN <<>>
    ELSE <<Head(messages), "\n">> \o StackTraceLines(Tail(messages))

\* a stack trace that is not written
log_stack_trace_Skipped == <<>>

log_stack_trace == <<"Stack trace:", "\n">> \o StackTraceLines(BacktraceSymbols)

\* a dispatch that falls through to the default handler after a registered one
HandlersInvoked_FallThrough(kind) ==
    IF handlers_[kind] # NoHandler
    THEN <<handlers_[kind], default_handler_>>
    ELSE <<default_handler_>>

\* Logger::handle_error, the dispatch: the handlers it invokes, in order
HandlersInvoked(kind) ==
    IF handlers_[kind] # NoHandler THEN <<handlers_[kind]>> ELSE <<default_handler_>>

\* what a handler writes to std::cerr when invoked with e
HandlerOutput(handler, e) ==
    CASE handler = BuiltinHandler -> <<"Unhandled exception: ", e.what, "\n">>
      [] handler = CustomErrorHandler ->
            <<"Custom handler caught exception: ", e.what, "\n">>
      [] OTHER -> <<>>

\* the handlers of hs run in order until one throws: those that were invoked
RECURSIVE Invoked(_)
Invoked(hs) ==
    IF hs = <<>> THEN <<>>
    ELSE IF Head(hs) = ThrowingHandler THEN <<Head(hs)>>
    ELSE <<Head(hs)>> \o Invoked(Tail(hs))

RECURSIVE HandlersOutput(_, _)
HandlersOutput(hs, e) ==
    IF hs = <<>> THEN <<>> ELSE HandlerOutput(Head(hs), e) \o HandlersOutput(Tail(hs), e)

RECURSIVE InvocationRecords(_, _)
InvocationRecords(hs, e) ==
    IF hs = <<>> THEN <<>>
    ELSE <<[handler |-> Head(hs), what |-> e.what]>> \o InvocationRecords(Tail(hs), e)

\* Logger::handle_error(e, context)
handle_error(e, context) ==
    LET logged == LogEffect("error", context, 0, <<e.what>>)
        invoked == Invoked(HandlersInvoked(e.kind))
        outcome == IF logged.outcome = "propagated" THEN "log_propagated"
                   ELSE IF ThrowingHandler \in {invoked[i] : i \in 1..Len(invoked)}
                        THEN "handler_threw"
                        ELSE "returned"
    IN  /\ wpc = "absent"
        /\ nops < MaxErrOps
        /\ nops' = nops + 1
        /\ fs' = logged.fs
        /\ formatter_calls' = formatter_calls + logged.formatter
        /\ mutex_locks' = mutex_locks + logged.lock
        /\ calls' = Append(calls, CallRecord("error", context, 0, <<e.what>>, logged.outcome))
        /\ IF logged.outcome = "propagated"
           THEN /\ cerr' = logged.cerr
                /\ UNCHANGED handler_calls
           ELSE /\ cerr' = logged.cerr \o log_stack_trace \o HandlersOutput(invoked, e)
                /\ handler_calls' = handler_calls \o InvocationRecords(invoked, e)
        /\ he_calls' = Append(he_calls, [kind |-> e.kind, what |-> e.what,
                                         context |-> context, outcome |-> outcome])
        /\ UNCHANGED <<globalVars, configVars, asyncVars, threadVars, fileVars,
                       formatted, handlers_,
                       default_handler_, registrations>>

\* a registration that keeps the handler a key already has
RegisterHandler_KeepFirst(map, exception_type, handler) ==
    IF map[exception_type] = NoHandler THEN [map EXCEPT ![exception_type] = handler]
    ELSE map

\* handlers_[exception_type] = handler
RegisterHandler(map, exception_type, handler) == [map EXCEPT ![exception_type] = handler]

\* Logger::register_error_handler(exception_type, handler)
register_error_handler(exception_type, handler) ==
    /\ wpc = "absent"
    /\ nops < MaxErrOps
    /\ nops' = nops + 1
    /\ handlers_' = RegisterHandler(handlers_, exception_type, handler)
    /\ registrations' = Append(registrations, [key |-> exception_type, handler |-> handler])
    /\ UNCHANGED <<globalVars, configVars, sinkVars, asyncVars, threadVars, fileVars,
                   formatted, default_handler_, handler_calls, he_calls>>

\* the key under which registrations records set_default_error_handler
DefaultKey == "default"

\* Logger::set_default_error_handler(handler)
set_default_error_handler(handler) ==
    /\ wpc = "absent"
    /\ nops < MaxErrOps
    /\ nops' = nops + 1
    /\ default_handler_' = handler
    /\ registrations' = Append(registrations, [key |-> DefaultKey, handler |-> handler])
    /\ UNCHANGED <<globalVars, configVars, sinkVars, asyncVars, threadVars, fileVars,
                   formatted, handlers_, handler_calls, he_calls>>

\* a console Logger in a build whose floor lets error records through or not
InitErr ==
    /\ LOG_LEVEL \in {LOG_LEVEL_DEBUG, LOG_LEVEL_FATAL}
    /\ is_global_colored = TRUE
    /\ is_stderr_terminal_ = FALSE
    /\ LoggerInit({"info"}, {"Console"}, FormatterInputs, {""})
    /\ NoAsync

NextErr ==
    \/ \E e \in ExceptionInputs, context \in ContextInputs : handle_error(e, context)
    \/ \E key \in KindInputs, handler \in HandlerInputs :
          register_error_handler(key, handler)
    \/ \E handler \in HandlerInputs : set_default_error_handler(handler)

SpecErr == InitErr /\ [][NextErr]_vars

(***************************************************************************)
(* Logger::log called by several threads on one Logger, one action per     *)
(* access to the shared state: the formatter call and the choice of the    *)
(* stream, the acquisition of mutex_, each insertion into a stream, the    *)
(* release of mutex_ at the end of the try block.                          *)
(***************************************************************************)
\* a lock_guard that does not wait for the mutex
MutexAvailable_Always(holder) == TRUE

\* std::lock_guard<std::mutex> lock(mutex_) returns once no thread holds it
MutexAvailable(holder) == holder = NoThread

\* the insertions of chunks into the sink, as a sequence of pending writes
Insertions(sink, chunks) == [i \in 1..Len(chunks) |-> [sink |-> sink, chunk |-> chunks[i]]]

\* insertions that include the file line in every mode
RecordInsertions_FileLineInEveryMode(logStream, level, formattedMsg) ==
    Insertions(logStream, StreamLine(logStream, level, formattedMsg))
    \o (IF log_file_.is_open
        THEN Insertions("file", FileLine(level, formattedMsg)) ELSE <<>>)

\* Logger::log, the insertions made under the lock: the line on logStream,
\* then in mode Both the line on log_file_
RecordInsertions(logStream, level, formattedMsg) ==
    Insertions(logStream, StreamLine(logStream, level, formattedMsg))
    \o (IF output_mode_ = "Both" /\ log_file_.is_open
        THEN Insertions("file", FileLine(level, formattedMsg)) ELSE <<>>)

\* the ghost record of who wrote a chunk
WrittenBy(id, kind) == [id |-> id, kind |-> kind]

\* one operator<< of the thread t: the head of its pending insertions
Insert(t, kind) ==
    LET w == Head(tcall[t].pending)
        tag == WrittenBy(tcall[t].id, kind)
    IN  IF w.sink = "cerr"
        THEN /\ cerr' = Append(cerr, w.chunk)
             /\ cerr_by' = Append(cerr_by, tag)
             /\ UNCHANGED <<fs, fs_by>>
        ELSE /\ fs' = WriteFile(fs, <<w.chunk>>)
             /\ fs_by' = IF fs' = fs THEN fs_by
                         ELSE [fs_by EXCEPT ![log_file_.path] = Append(@, tag)]
             /\ UNCHANGED <<cerr, cerr_by>>

\* the thread t returns from Logger::log
Return(t, outcome) ==
    /\ calls' = Append(calls, CallRecord(tcall[t].level, tcall[t].file, tcall[t].line,
                                         tcall[t].msg, outcome))
    /\ tpc' = [tpc EXCEPT ![t] = "idle"]

\* Logger::log up to the lock: the floor test, the formatter, getLogStream
BeginLog(t, level, file, line, msg) ==
    LET r == CallFormatter(formatter_, file, line, Render(msg))
        call == [id |-> nops + 1, level |-> level, file |-> file, line |-> line,
                 msg |-> msg, text |-> r.text, stream |-> "", pending |-> <<>>]
    IN  /\ wpc = "absent"
        /\ tpc[t] = "idle"
        /\ nops < MaxConcCalls
        /\ nops' = nops + 1
        /\ IF BelowFloor(level)
           THEN /\ calls' = Append(calls, CallRecord(level, file, line, msg, "dropped"))
                /\ UNCHANGED <<tpc, tcall, formatter_calls>>
           ELSE /\ formatter_calls' = formatter_calls + 1
                /\ CASE r.kind = "value" ->
                          /\ tcall' = [tcall EXCEPT ![t] =
                                          [call EXCEPT !.stream = getLogStream]]
                          /\ tpc' = [tpc EXCEPT ![t] = "lock"]
                          /\ UNCHANGED calls
                     [] r.kind = "std_exception" ->
                          /\ tcall' = [tcall EXCEPT ![t] =
                                          [call EXCEPT !.pending =
                                              Insertions("cerr", <<"Logging exception: ",
                                                                   r.text, "\n">>)]]
                          /\ tpc' = [tpc EXCEPT ![t] = "catch"]
                          /\ UNCHANGED calls
                     [] r.kind = "other_exception" ->
                          /\ calls' = Append(calls, CallRecord(level, file, line, msg,
                                                               "propagated"))
                          /\ UNCHANGED <<tpc, tcall>>
        /\ UNCHANGED <<globalVars, configVars, asyncVars, fileVars, formatted, cerr, fs,
                       mutex_locks, mutex_, cerr_by, fs_by>>

\* a thread calls Logger::log(level, file, line, msg)
ThreadBegin(t, level, file, line, msg) ==
    /\ handling[t] = NoException
    /\ BeginLog(t, level, file, line, msg)
    /\ UNCHANGED <<handlerVars, handling>>

\* std::lock_guard<std::mutex> lock(mutex_)
ThreadLock(t) ==
    /\ tpc[t] = "lock"
    /\ MutexAvailable(mutex_)
    /\ mutex_' = t
    /\ mutex_locks' = mutex_locks + 1
    /\ tcall' = [tcall EXCEPT ![t].pending =
                    RecordInsertions(tcall[t].stream, tcall[t].level, tcall[t].text)]
    /\ tpc' = [tpc EXCEPT ![t] = "write"]
    /\ UNCHANGED <<globalVars, configVars, asyncVars, handlerVars, fileVars,
                   formatted, nops, cerr, fs,
                   calls, formatter_calls, cerr_by, fs_by, handling>>

\* one operator<< of the record's line
ThreadWrite(t) ==
    /\ tpc[t] = "write"
    /\ tcall[t].pending # <<>>
    /\ Insert(t, "record")
    /\ tcall' = [tcall EXCEPT ![t].pending = Tail(@)]
    /\ UNCHANGED <<globalVars, configVars, asyncVars, handlerVars, fileVars,
                   formatted, nops, calls, formatter_calls, mutex_locks, mutex_, tpc,
                   handling>>

\* the end of the try block: ~lock_guard releases mutex_, log returns
ThreadUnlock(t) ==
    /\ tpc[t] = "write"
    /\ tcall[t].pending = <<>>
    /\ mutex_' = NoThread
    /\ Return(t, "written")
    /\ tcall' = [tcall EXCEPT ![t] = NoCall]
    /\ UNCHANGED <<globalVars, configVars, asyncVars, handlerVars, fileVars,
                   formatted, nops, cerr, fs,
                   formatter_calls, mutex_locks, cerr_by, fs_by, handling>>

\* the catch block: one operator<< of the diagnostic on std::cerr, mutex_
\* not held; after the last one log returns
ThreadCatch(t) ==
    /\ tpc[t] = "catch"
    /\ Insert(t, "diagnostic")
    /\ IF Len(tcall[t].pending) = 1
       THEN /\ Return(t, "caught")
            /\ tcall' = [tcall EXCEPT ![t] = NoCall]
       ELSE /\ tcall' = [tcall EXCEPT ![t].pending = Tail(@)]
            /\ UNCHANGED <<calls, tpc>>
    /\ UNCHANGED <<globalVars, configVars, asyncVars, handlerVars, fileVars,
                   formatted, nops, formatter_calls, mutex_locks, mutex_, handling>>

\* a Logger shared by the threads, in a build whose floor lets info through or not
InitConc ==
    /\ LOG_LEVEL \in {LOG_LEVEL_DEBUG, LOG_LEVEL_ERROR}
    /\ is_global_colored = TRUE
    /\ is_stderr_terminal_ \in BOOLEAN
    /\ LoggerInit({"info"}, OutputMode, FormatterInputs, {"", PathA})
    /\ NoAsync

NextConc ==
    \/ \E t \in Threads, level \in ThreadLevels, loc \in LocationInputs, msg \in MsgInputs :
          ThreadBegin(t, level, loc[1], loc[2], msg)
    \/ \E t \in Threads : ThreadLock(t)
    \/ \E t \in Threads : ThreadWrite(t)
    \/ \E t \in Threads : ThreadUnlock(t)
    \/ \E t \in Threads : ThreadCatch(t)

SpecConc == InitConc /\ [][NextConc]_vars

(***************************************************************************)
(* Logger::set_log_file, with the Logger::log calls around it.             *)
(***************************************************************************)
\* Logger::set_log_file(filename)
set_log_file(filename) ==
    /\ wpc = "absent"
    /\ nops < MaxFileOps
    /\ nops' = nops + 1
    /\ mutex_locks' = mutex_locks + 1
    /\ log_file_' = OpenFile(filename)
    /\ set_file_calls' = Append(set_file_calls,
                                [filename |-> filename, was_open |-> log_file_.is_open,
                                 was_path |-> log_file_.path])
    /\ UNCHANGED <<globalVars, log_level_, output_mode_, formatter_, log_level_colors_,
                   cerr, fs, calls, formatter_calls, asyncVars, handlerVars, threadVars,
                   formatted>>

\* Logger::log(level, file, line, msg) between the set_log_file calls
FileLog(level, file, line, msg) ==
    /\ wpc = "absent"
    /\ nops < MaxFileOps
    /\ nops' = nops + 1
    /\ LogCall(level, file, line, msg)
    /\ UNCHANGED <<globalVars, configVars, asyncVars, extVars>>

\* a Logger with the default formatter, with or without a log file
InitFile ==
    /\ LOG_LEVEL = LOG_LEVEL_DEBUG
    /\ is_global_colored = TRUE
    /\ is_stderr_terminal_ = FALSE
    /\ LoggerInit({"info"}, OutputMode, {DefaultFormatterId}, {"", PathA})
    /\ NoAsync

NextFile ==
    \/ \E filename \in Paths \cup {BadPath} : set_log_file(filename)
    \/ \E level \in ThreadLevels, loc \in LocationInputs, msg \in MsgInputs :
          FileLog(level, loc[1], loc[2], msg)

SpecFile == InitFile /\ [][NextFile]_vars

(***************************************************************************)
(* The color flag, the level colors and the formatter, with the            *)
(* Logger::log calls around their changes.                                 *)
(***************************************************************************)
\* colorlog::is_global_colored = enabled, assigned by the application
set_is_global_colored(enabled) ==
    /\ wpc = "absent"
    /\ nops < MaxCfgOps
    /\ nops' = nops + 1
    /\ is_global_colored' = enabled
    /\ UNCHANGED <<LOG_LEVEL, is_stderr_terminal_, configVars, sinkVars, asyncVars,
                   extVars>>

\* Logger::set_log_level_color(level, color)
set_log_level_color(level, color) ==
    /\ wpc = "absent"
    /\ nops < MaxCfgOps
    /\ nops' = nops + 1
    /\ log_level_colors_' = [log_level_colors_ EXCEPT ![level] = color]
    /\ UNCHANGED <<globalVars, log_level_, output_mode_, formatter_, log_file_,
                   sinkVars, asyncVars, extVars>>

\* Logger::set_formatter(formatter)
set_formatter(formatter) ==
    /\ wpc = "absent"
    /\ nops < MaxCfgOps
    /\ nops' = nops + 1
    /\ formatter_' = formatter
    /\ UNCHANGED <<globalVars, log_level_, output_mode_, log_level_colors_, log_file_,
                   sinkVars, asyncVars, extVars>>

\* Logger::log(level, file, line, msg) between the changes
CfgLog(level, file, line, msg) ==
    /\ wpc = "absent"
    /\ nops < MaxCfgOps
    /\ nops' = nops + 1
    /\ LogCall(level, file, line, msg)
    /\ UNCHANGED <<globalVars, configVars, asyncVars, extVars>>

\* a Logger on a terminal or not, with the default or the test's formatter
InitCfg ==
    /\ LOG_LEVEL = LOG_LEVEL_DEBUG
    /\ is_global_colored = TRUE
    /\ is_stderr_terminal_ \in BOOLEAN
    /\ LoggerInit({"info"}, OutputMode, {DefaultFormatterId, CustomFormatterId},
                  {"", PathA})
    /\ NoAsync

NextCfg ==
    \/ \E enabled \in BOOLEAN : set_is_global_colored(enabled)
    \/ \E level \in ThreadLevels, color \in ColorInputs : set_log_level_color(level, color)
    \/ \E formatter \in {DefaultFormatterId, CustomFormatterId} : set_formatter(formatter)
    \/ \E level \in ThreadLevels, loc \in LocationInputs, msg \in MsgInputs :
          CfgLog(level, loc[1], loc[2], msg)

SpecCfg == InitCfg /\ [][NextCfg]_vars

(***************************************************************************)
(* The default formatter applied to arguments of every shape.              *)
(***************************************************************************)
\* LoggerConfig().formatter(level, file, line, msg)
ApplyDefaultFormatter(file, line, msg) ==
    /\ wpc = "absent"
    /\ Len(formatted) < MaxFormatterCalls
    /\ formatted' = Append(formatted, [file |-> file, line |-> line, msg |-> msg,
                                       result |-> DefaultFormatter(file, line, msg)])
    /\ UNCHANGED <<globalVars, configVars, sinkVars, nops, asyncVars, handlerVars,
                   threadVars, fileVars>>

InitFmt ==
    /\ LOG_LEVEL = LOG_LEVEL_DEBUG
    /\ is_global_colored = TRUE
    /\ is_stderr_terminal_ = FALSE
    /\ LoggerInit({"info"}, {"Console"}, {DefaultFormatterId}, {""})
    /\ NoAsync

NextFmt ==
    \E file \in FormatterFileInputs, line \in FormatterLineInputs,
       msg \in FormatterMsgInputs : ApplyDefaultFormatter(file, line, msg)

SpecFmt == InitFmt /\ [][NextFmt]_vars

(***************************************************************************)
(* Logger::handle_error called by a thread while other threads are in      *)
(* Logger::log: the error() call, which is a Logger::log call, then the    *)
(* insertions of log_stack_trace and of the handler, made one by one       *)
(* without mutex_.                                                         *)
(***************************************************************************)
\* handle_error(e, context) up to the lock of its error(context, 0, e.what())
ThreadHandleError(t, e, context) ==
    LET r == CallFormatter(formatter_, context, 0, e.what)
        propagates == ~BelowFloor("error") /\ r.kind = "other_exception"
    IN  /\ handling[t] = NoException
        /\ Len(he_calls) + Cardinality({u \in Threads : handling[u] # NoException})
              < MaxHandleErrors
        /\ BeginLog(t, "error", context, 0, <<e.what>>)
        /\ IF propagates
           THEN /\ he_calls' = Append(he_calls, [kind |-> e.kind, what |-> e.what,
                                                 context |-> context,
                                                 outcome |-> "log_propagated"])
                /\ UNCHANGED handling
           ELSE /\ handling' = [handling EXCEPT ![t] = e]
                /\ UNCHANGED he_calls
        /\ UNCHANGED <<handlers_, default_handler_, handler_calls, registrations>>

\* error() has returned: log_stack_trace() is entered
ThreadTrace(t) ==
    /\ tpc[t] = "idle"
    /\ handling[t] # NoException
    /\ tpc' = [tpc EXCEPT ![t] = "trace"]
    /\ tcall' = [tcall EXCEPT ![t] =
                    [NoCall EXCEPT !.pending = Insertions("cerr", log_stack_trace)]]
    /\ UNCHANGED <<globalVars, configVars, sinkVars, nops, asyncVars, handlerVars,
                   fileVars, formatted, mutex_, cerr_by, fs_by, handling>>

\* one operator<< of log_stack_trace or of the handler, on std::cerr
ThreadUnlockedWrite(t) ==
    /\ tpc[t] \in {"trace", "handler"}
    /\ tcall[t].pending # <<>>
    /\ Insert(t, tpc[t])
    /\ tcall' = [tcall EXCEPT ![t].pending = Tail(@)]
    /\ UNCHANGED <<globalVars, configVars, asyncVars, handlerVars, fileVars,
                   formatted, nops, calls, formatter_calls, mutex_locks, mutex_, tpc,
                   handling>>

\* log_stack_trace has returned: the dispatch, and the handler is entered
ThreadDispatch(t) ==
    LET invoked == Invoked(HandlersInvoked(handling[t].kind)) IN
    /\ tpc[t] = "trace"
    /\ tcall[t].pending = <<>>
    /\ tpc' = [tpc EXCEPT ![t] = "handler"]
    /\ tcall' = [tcall EXCEPT ![t].pending =
                    Insertions("cerr", HandlersOutput(invoked, handling[t]))]
    /\ handler_calls' = handler_calls \o InvocationRecords(invoked, handling[t])
    /\ UNCHANGED <<globalVars, configVars, sinkVars, nops, asyncVars, fileVars,
                   formatted, mutex_, cerr_by, fs_by, handling, handlers_,
                   default_handler_, he_calls, registrations>>

\* the handler has returned or thrown: handle_error is left
ThreadHandlerReturn(t) ==
    /\ tpc[t] = "handler"
    /\ tcall[t].pending = <<>>
    /\ tpc' = [tpc EXCEPT ![t] = "idle"]
    /\ tcall' = [tcall EXCEPT ![t] = NoCall]
    /\ handling' = [handling EXCEPT ![t] = NoException]
    /\ he_calls' = Append(he_calls,
                          [kind |-> handling[t].kind, what |-> handling[t].what,
                           context |-> calls[Len(calls)].file,
                           outcome |-> IF handler_calls[Len(handler_calls)].handler
                                            = ThrowingHandler
                                       THEN "handler_threw" ELSE "returned"])
    /\ UNCHANGED <<globalVars, configVars, sinkVars, nops, asyncVars, fileVars,
                   formatted, mutex_, cerr_by, fs_by, handlers_, default_handler_,
                   handler_calls, registrations>>

\* a console Logger shared by threads that log and threads that handle errors
InitRace ==
    /\ LOG_LEVEL = LOG_LEVEL_DEBUG
    /\ is_global_colored = TRUE
    /\ is_stderr_terminal_ = FALSE
    /\ LoggerInit({"info"}, {"Console"}, {DefaultFormatterId, CustomFormatterId,
                                           ThrowsStdId}, {""})
    /\ NoAsync

NextRace ==
    \/ NextConc
    \/ \E t \in Threads, e \in ExceptionInputs, context \in ContextInputs :
          ThreadHandleError(t, e, context)
    \/ \E t \in Threads : ThreadTrace(t)
    \/ \E t \in Threads : ThreadUnlockedWrite(t)
    \/ \E t \in Threads : ThreadDispatch(t)
    \/ \E t \in Threads : ThreadHandlerReturn(t)

SpecRace == InitRace /\ [][NextRace]_vars

(***************************************************************************)
(* Logger::log while another thread assigns colorlog::is_global_colored:   *)
(* under mutex_ the flag is read twice, by check_color in Logger::log and  *)
(* by check_color in apply_code, and it is assigned without any lock.      *)
(***************************************************************************)
\* the insertion of one chunk into the stream of the call of thread t
InsertChunk(t, chunk) ==
    LET tag == WrittenBy(tcall[t].id, "record")
    IN  IF tcall[t].stream = "cerr"
        THEN /\ cerr' = Append(cerr, chunk)
             /\ cerr_by' = Append(cerr_by, tag)
             /\ UNCHANGED <<fs, fs_by>>
        ELSE /\ fs' = WriteFile(fs, <<chunk>>)
             /\ fs_by' = IF fs' = fs THEN fs_by
                         ELSE [fs_by EXCEPT ![log_file_.path] = Append(@, tag)]
             /\ UNCHANGED <<cerr, cerr_by>>

\* std::lock_guard<std::mutex> lock(mutex_); logStream << "["
ColorLock(t) ==
    /\ tpc[t] = "lock"
    /\ MutexAvailable(mutex_)
    /\ mutex_' = t
    /\ mutex_locks' = mutex_locks + 1
    /\ InsertChunk(t, "[")
    /\ tpc' = [tpc EXCEPT ![t] = "check"]
    /\ UNCHANGED <<globalVars, configVars, asyncVars, handlerVars, fileVars,
                   formatted, nops, calls, formatter_calls, tcall, handling>>

\* the rest of the line after the level name, and the file line of mode Both
AfterLevelName(t) ==
    Insertions(tcall[t].stream, <<"] ", tcall[t].text, "\n">>)
    \o (IF output_mode_ = "Both" /\ log_file_.is_open
        THEN Insertions("file", FileLine(tcall[t].level, tcall[t].text)) ELSE <<>>)

\* Logger::log: if (check_color(logStream)), the first read of the flag
ColorCheck(t) ==
    /\ tpc[t] = "check"
    /\ IF check_color(tcall[t].stream)
       THEN /\ tpc' = [tpc EXCEPT ![t] = "apply"]
            /\ tcall' = [tcall EXCEPT ![t].pending = <<>>]
       ELSE /\ tpc' = [tpc EXCEPT ![t] = "write"]
            /\ tcall' = [tcall EXCEPT ![t].pending =
                            Insertions(tcall[t].stream,
                                       <<logLevelToString(tcall[t].level)>>)
                            \o AfterLevelName(t)]
    /\ UNCHANGED <<globalVars, configVars, sinkVars, nops, asyncVars, handlerVars,
                   fileVars, formatted, mutex_, cerr_by, fs_by, handling>>

\* applyLogLevelColor: apply_code reads the flag again and inserts the code
\* or nothing; the level name and the reset sequence follow in any case
ColorApply(t) ==
    /\ tpc[t] = "apply"
    /\ tpc' = [tpc EXCEPT ![t] = "write"]
    /\ tcall' = [tcall EXCEPT ![t].pending =
                    Insertions(tcall[t].stream,
                               applyLogLevelColor(tcall[t].stream, tcall[t].level)
                               \o <<logLevelToString(tcall[t].level), ResetCode>>)
                    \o AfterLevelName(t)]
    /\ UNCHANGED <<globalVars, configVars, sinkVars, nops, asyncVars, handlerVars,
                   fileVars, formatted, mutex_, cerr_by, fs_by, handling>>

\* a thread assigns colorlog::is_global_colored = enabled
ThreadSetGlobalColored(enabled) ==
    /\ wpc = "absent"
    /\ nops < MaxConcCalls
    /\ nops' = nops + 1
    /\ is_global_colored # enabled
    /\ is_global_colored' = enabled
    /\ UNCHANGED <<LOG_LEVEL, is_stderr_terminal_, configVars, sinkVars, asyncVars,
                   extVars>>

\* a console Logger on a terminal or not, shared by the threads
InitColor ==
    /\ LOG_LEVEL = LOG_LEVEL_DEBUG
    /\ is_global_colored = TRUE
    /\ is_stderr_terminal_ \in BOOLEAN
    /\ LoggerInit({"info"}, {"Console", "Both"}, {DefaultFormatterId}, {"", PathA})
    /\ NoAsync

NextColor ==
    \/ \E t \in Threads, level \in ThreadLevels, loc \in LocationInputs, msg \in MsgInputs :
          ThreadBegin(t, level, loc[1], loc[2], msg)
    \/ \E t \in Threads : ColorLock(t)
    \/ \E t \in Threads : ColorCheck(t)
    \/ \E t \in Threads : ColorApply(t)
    \/ \E t \in Threads : ThreadWrite(t)
    \/ \E t \in Threads : ThreadUnlock(t)
    \/ \E enabled \in BOOLEAN : ThreadSetGlobalColored(enabled)

SpecColor == InitColor /\ [][NextColor]_vars

(***************************************************************************)
(* An AsyncLogger whose formatter submits a record through                 *)
(* AsyncLogger::log of the same AsyncLogger.  The formatter runs on the    *)
(* worker thread inside logger_.log, where processQueue holds              *)
(* queue_mutex_: the lock_guard of AsyncLogger::log locks a std::mutex     *)
(* that the calling thread owns, which is undefined; a build either blocks *)
(* the thread for ever or makes lock() throw std::system_error.            *)
(***************************************************************************)
\* what locking a std::mutex owned by the caller can do
RelockOutcomes == {"blocks", "throws"}

\* processQueue: logger_.log calls the formatter, and the formatter calls
\* AsyncLogger::log, whose lock_guard locks queue_mutex_
WorkerRelock(outcome) ==
    LET entry == Front(log_queue_) IN
    /\ Running
    /\ wpc = "in_log"
    /\ formatter_ = ReentrantId
    /\ queue_mutex_ = "worker"
    /\ formatter_calls' = formatter_calls + 1
    /\ IF outcome = "blocks"
       THEN /\ wpc' = "deadlocked"
            /\ UNCHANGED <<log_queue_, cerr, calls>>
       ELSE \* std::system_error leaves the formatter; Logger::log catches it
            /\ cerr' = cerr \o <<"Logging exception: ",
                                 "Resource deadlock avoided", "\n">>
            /\ calls' = Append(calls, CallRecord(entry.level, entry.file, entry.line,
                                                 <<entry.msg>>, "caught"))
            /\ log_queue_' = Pop(log_queue_)
            /\ wpc' = "drain"
    /\ UNCHANGED <<globalVars, extVars, configVars, fs, nops, queue_mutex_,
                   stop_thread_, cv_signal, dpc, forwarded, enqueued_at_stop,
                   enqueued, mutex_locks>>

\* AsyncLogger::AsyncLogger(config) with the re-entrant formatter
InitReentrant ==
    /\ LOG_LEVEL = LOG_LEVEL_DEBUG
    /\ is_global_colored = TRUE
    /\ is_stderr_terminal_ = FALSE
    /\ LoggerInit({"info"}, {"Console"}, {ReentrantId}, {""})
    /\ log_queue_ = <<>>
    /\ queue_mutex_ = "free"
    /\ stop_thread_ = FALSE
    /\ cv_signal = FALSE
    /\ wpc = "top"
    /\ dpc = "alive"
    /\ enqueued = <<>>
    /\ forwarded = <<>>
    /\ enqueued_at_stop = -1

NextReentrant ==
    \/ \E entry \in EntryInputs : AsyncLog(entry)
    \/ WorkerLock
    \/ WorkerWake
    \/ WorkerBeginLog
    \/ \E outcome \in RelockOutcomes : WorkerRelock(outcome)
    \/ WorkerCheckStop
    \/ DtorSetStop
    \/ DtorNotify
    \/ DtorJoin

SpecReentrant == InitReentrant /\ [][NextReentrant]_vars

(***************************************************************************)
(* Helpers of the properties.                                              *)
(***************************************************************************)
IsPrefix(s, t) == Len(s) <= Len(t) /\ SubSeq(t, 1, Len(s)) = s

\* the chunks a step appended to a stream
Appended(before, after) == SubSeq(after, Len(before) + 1, Len(after))

\* a step was one Logger::log call; LastCall is its record
LogCalled == Len(calls') = Len(calls) + 1

LastCall == calls'[Len(calls')]

\* the undecorated line `[<LEVEL>] <formatted message>` of a call record
PlainLine(c) ==
    <<"[", logLevelToString(c.level), "] ",
      CallFormatter(formatter_, c.file, c.line, c.msg).text, "\n">>

IsDecoration(chunk) ==
    chunk = ResetCode \/ \E level \in Levels : chunk = log_level_colors_[level]

Undecorated(chunks) == SelectSeq(chunks, LAMBDA chunk : ~IsDecoration(chunk))

NumLines(chunks) == Len(SelectSeq(chunks, LAMBDA chunk : chunk = "\n"))

FileUsable == log_file_.is_open /\ ~log_file_.fail

\* 1 while the entry at the front of the queue is already with logger_.log
InFlight == IF wpc \in {"in_log", "terminated"} THEN 1 ELSE 0

(***************************************************************************)
(* C1: the worker hands the entries to Logger::log in the order they were  *)
(* emplaced, each exactly once: what was forwarded is a prefix of what was *)
(* enqueued, the queue holds exactly the rest, Logger::log has received    *)
(* the forwarded entries in that order, and once the destructor has        *)
(* returned after the last submission everything enqueued was forwarded.   *)
(***************************************************************************)
C1_FifoExactlyOnce ==
    /\ IsPrefix(forwarded, enqueued)
    /\ log_queue_ = SubSeq(enqueued, Len(forwarded) + 1 - InFlight, Len(enqueued))
    /\ Len(calls) = Len(forwarded) - (IF wpc = "in_log" THEN 1 ELSE 0)
    /\ \A i \in 1..Len(calls) :
          calls[i].level = forwarded[i].level /\ calls[i].msg = forwarded[i].msg
    /\ (dpc = "joined" /\ enqueued_at_stop = Len(enqueued)) => forwarded = enqueued

C1_Witness ==
    /\ dpc = "joined"
    /\ enqueued_at_stop = Len(enqueued)
    /\ Len(forwarded) >= 2
    /\ forwarded[1] # forwarded[2]

(***************************************************************************)
(* C2: graceful drain.  When the worker has exited, every entry enqueued   *)
(* before the destructor set stop_thread_ has been forwarded and its       *)
(* Logger::log call has returned; and the step by which the worker exits   *)
(* is taken after a stop request and leaves the queue empty.               *)
(***************************************************************************)
C2_GracefulDrain ==
    /\ [](wpc = "done" =>
            /\ enqueued_at_stop >= 0
            /\ IsPrefix(SubSeq(enqueued, 1, enqueued_at_stop), forwarded)
            /\ Len(calls) >= enqueued_at_stop)
    /\ [][(wpc # "done" /\ wpc' = "done") => (stop_thread_ /\ log_queue_' = <<>>)]_vars

C2_Witness ==
    /\ wpc = "done"
    /\ enqueued_at_stop >= 2
    /\ Len(forwarded) >= 2

(***************************************************************************)
(* C3: in the terminal state, the worker having exited, no entry is left   *)
(* in the queue, also when producers call log after the stop request.      *)
(***************************************************************************)
C3_NoEntryLeftAfterExit == wpc = "done" => log_queue_ = <<>>

(***************************************************************************)
(* C4: while the worker is inside Logger::log a producer can acquire the   *)
(* queue lock: the worker does not hold queue_mutex_ during the write.     *)
(***************************************************************************)
C4_ProducerNotBlockedDuringWrite == wpc = "in_log" => queue_mutex_ = "free"

(***************************************************************************)
(* C5: an accepted record puts exactly one line `[<LEVEL>] <formatted      *)
(* message>` on each sink of the output mode: Console, the error stream    *)
(* only; File with the file open, the file only; Both with the file open,  *)
(* one line on the error stream and one in the file.                       *)
(***************************************************************************)
C5_OneLinePerSink ==
    [][(LogCalled /\ LastCall.outcome = "written") =>
          LET line == PlainLine(LastCall)
              onCerr == Undecorated(Appended(cerr, cerr')) = line
              onFile == fs' = [fs EXCEPT ![log_file_.path] = @ \o line]
          IN  /\ output_mode_ = "Console" => onCerr /\ fs' = fs
              /\ (output_mode_ = "File" /\ FileUsable) => onFile /\ cerr' = cerr
              /\ (output_mode_ = "Both" /\ FileUsable) => onCerr /\ onFile
      ]_vars

(***************************************************************************)
(* C6: a record whose rank is below the instance threshold log_level_      *)
(* writes nothing to any sink.                                             *)
(***************************************************************************)
C6_ThresholdFilters ==
    [][(LogCalled /\ Rank(LastCall.level) < Rank(log_level_)) =>
          (cerr' = cerr /\ fs' = fs)]_vars

(***************************************************************************)
(* C7: a call of Logger::log at a level whose rank is below the floor      *)
(* LOG_LEVEL returns without calling the formatter, without taking the     *)
(* mutex and without writing to the error stream or to a file.             *)
(***************************************************************************)
C7_BelowFloorNoEffect ==
    [][(LogCalled /\ Rank(LastCall.level) < LOG_LEVEL) =>
          /\ LastCall.outcome = "dropped"
          /\ UNCHANGED <<cerr, fs, formatter_calls, mutex_locks>>]_vars

C7_Witness ==
    /\ calls # <<>>
    /\ Rank(calls[Len(calls)].level) < LOG_LEVEL
    /\ calls[Len(calls)].outcome = "dropped"
    /\ output_mode_ = "Both"
    /\ log_file_.is_open

(***************************************************************************)
(* C8, as stated: trace is the lowest level, so whenever a debug record    *)
(* was dropped by the floor a trace record is dropped too.                 *)
(***************************************************************************)
C8_TraceLowest ==
    \A i, j \in 1..Len(calls) :
        (calls[i].level = "debug" /\ calls[i].outcome = "dropped"
            /\ calls[j].level = "trace") => calls[j].outcome = "dropped"

(***************************************************************************)
(* C8, amended: the order used for filtering is                            *)
(* debug < info < warn < error < fatal < trace < unknown; debug is the     *)
(* lowest level: whenever a record is dropped by the floor, every record   *)
(* of the same or a lower level in this order is dropped too, so a dropped *)
(* trace record implies that debug records are dropped.                    *)
(***************************************************************************)
FilterOrder == <<"debug", "info", "warn", "error", "fatal", "trace", "unknown">>

C8_DebugLowest ==
    /\ \A i, j \in 1..Len(FilterOrder) :
          i < j => Rank(FilterOrder[i]) < Rank(FilterOrder[j])
    /\ \A i, j \in 1..Len(calls) :
          (calls[i].outcome = "dropped" /\ Rank(calls[j].level) <= Rank(calls[i].level))
              => calls[j].outcome = "dropped"
    /\ \A i, j \in 1..Len(calls) :
          (calls[i].level = "trace" /\ calls[i].outcome = "dropped"
              /\ calls[j].level = "debug") => calls[j].outcome = "dropped"

C8_Witness ==
    \E i, j \in 1..Len(calls) :
        /\ calls[i].level = "trace" /\ calls[i].outcome = "dropped"
        /\ calls[j].level = "debug" /\ calls[j].outcome = "dropped"

(***************************************************************************)
(* C9: in the default build, with output mode File, the log file open and  *)
(* a formatter that returns, after k calls of Logger::log at levels among  *)
(* info, debug, warn, error, fatal, trace the file holds exactly k lines,  *)
(* the line of each call, in call order, and the error stream none.        *)
(***************************************************************************)
RECURSIVE ExpectedLines(_)
ExpectedLines(cs) ==
    IF cs = <<>> THEN <<>> ELSE PlainLine(Head(cs)) \o ExpectedLines(Tail(cs))

TestedLevels == {"info", "debug", "warn", "error", "fatal", "trace"}

FileLoggingScenario ==
    /\ LOG_LEVEL = LOG_LEVEL_DEBUG
    /\ output_mode_ = "File"
    /\ FileUsable
    /\ formatter_ \in {DefaultFormatterId, CustomFormatterId}
    /\ nops = Len(calls)
    /\ \A i \in 1..Len(calls) : calls[i].level \in TestedLevels

C9_FileModeOneLinePerCall ==
    FileLoggingScenario =>
        /\ fs[log_file_.path] = ExpectedLines(calls)
        /\ NumLines(fs[log_file_.path]) = Len(calls)
        /\ cerr = <<>>

C9_Witness ==
    /\ FileLoggingScenario
    /\ Len(calls) >= 2
    /\ calls[1].level # calls[2].level
    /\ NumLines(fs[log_file_.path]) = Len(calls)

(***************************************************************************)
(* C10: no call of Logger::log lets a failure out to its caller, whatever  *)
(* the formatter throws.                                                   *)
(***************************************************************************)
C10_NeverPropagates ==
    \A i \in 1..Len(calls) : calls[i].outcome # "propagated"

(***************************************************************************)
(* Helpers of the properties on handle_error.                              *)
(***************************************************************************)
\* a step was one handle_error call; LastHandleError is its record
HandleErrorCalled == Len(he_calls') = Len(he_calls) + 1

LastHandleError == he_calls'[Len(he_calls')]

\* the handler invocations a step made
NewInvocations == Appended(handler_calls, handler_calls')

\* sub occurs in text
Contains(text, sub) ==
    \E i \in 1..(Len(text) + 1) : \E j \in (i - 1)..Len(text) : SubSeq(text, i, j) = sub

NoHandlerRegistered == \A key \in KindInputs : handlers_[key] = NoHandler

(***************************************************************************)
(* C11: a handle_error call whose error record has been handed to          *)
(* Logger::log and come back invokes exactly one handler, once: the one    *)
(* registered under the kind of e when the registry holds one (the default *)
(* handler is then not invoked), otherwise the default handler.            *)
(***************************************************************************)
C11_ExactlyOneHandler ==
    [][(HandleErrorCalled /\ LastHandleError.outcome # "log_propagated") =>
          LET kind == LastHandleError.kind
              expected == IF handlers_[kind] # NoHandler THEN handlers_[kind]
                          ELSE default_handler_
          IN  NewInvocations = <<[handler |-> expected, what |-> LastHandleError.what]>>
      ]_vars

C11_Witness ==
    /\ Len(he_calls) = 1
    /\ he_calls[1].outcome = "returned"
    /\ handlers_[he_calls[1].kind] # NoHandler
    /\ handlers_[he_calls[1].kind] # default_handler_
    /\ Len(handler_calls) = 1
    /\ handler_calls[1].handler = handlers_[he_calls[1].kind]

(***************************************************************************)
(* C12: handle_error(e, context) with no handler registered, its error     *)
(* record being written, puts on the stream an ERROR line whose text       *)
(* contains both the message of e and the context string, and then makes   *)
(* one invocation of the default handler.                                  *)
(***************************************************************************)
C12_ErrorLineHasMessageAndContext ==
    [][(HandleErrorCalled /\ NoHandlerRegistered /\ LastCall.outcome = "written") =>
          LET line == SubSeq(Appended(cerr, cerr'), 1, 5)
          IN  /\ line[2] = "ERROR"
              /\ Contains(line[4], LastHandleError.what)
              /\ Contains(line[4], LastHandleError.context)
              /\ NewInvocations = <<[handler |-> default_handler_,
                                     what |-> LastHandleError.what]>>
      ]_vars

(***************************************************************************)
(* Helpers of the properties on the handler registry.                      *)
(***************************************************************************)
\* the handler of the last registration under key in regs, none if absent
RECURSIVE LastRegistered(_, _, _)
LastRegistered(regs, key, none) ==
    IF regs = <<>> THEN none
    ELSE IF regs[Len(regs)].key = key THEN regs[Len(regs)].handler
    ELSE LastRegistered(SubSeq(regs, 1, Len(regs) - 1), key, none)

\* the handler that handle_error for kind has to invoke after regs
ExpectedTarget(regs, kind) ==
    IF LastRegistered(regs, kind, NoHandler) # NoHandler
    THEN LastRegistered(regs, kind, NoHandler)
    ELSE LastRegistered(regs, DefaultKey, BuiltinHandler)

RegisterCalled == Len(registrations') = Len(registrations) + 1

LastRegistration == registrations'[Len(registrations')]

(***************************************************************************)
(* C20: the registry is last-write-wins.  A handle_error call that reaches *)
(* its dispatch for kind K invokes the handler most recently registered    *)
(* under K, and when none was registered under K the most recently set     *)
(* default handler; a registration under K leaves the handlers of the      *)
(* other kinds and the default handler unchanged.                          *)
(***************************************************************************)
C20_LastWriteWins ==
    /\ [][(HandleErrorCalled /\ LastHandleError.outcome # "log_propagated") =>
            NewInvocations =
               <<[handler |-> ExpectedTarget(registrations, LastHandleError.kind),
                  what |-> LastHandleError.what]>>
        ]_vars
    /\ [][(RegisterCalled /\ LastRegistration.key # DefaultKey) =>
            /\ \A key \in KindInputs \ {LastRegistration.key} :
                   handlers_'[key] = handlers_[key]
            /\ default_handler_' = default_handler_
        ]_vars

C20_Witness ==
    /\ Len(registrations) = 2
    /\ registrations[1].key = registrations[2].key
    /\ registrations[1].key # DefaultKey
    /\ registrations[1].handler # registrations[2].handler
    /\ Len(he_calls) = 1
    /\ he_calls[1].kind = registrations[2].key
    /\ Len(handler_calls) = 1
    /\ handler_calls[1].handler = registrations[2].handler

(***************************************************************************)
(* Helpers of the properties on concurrent calls.                          *)
(***************************************************************************)
\* in the tags of one sink, no chunk of another record lies between two
\* chunks of one record
Uninterrupted(tags) ==
    \A i, j, k \in 1..Len(tags) :
        (i < j /\ j < k /\ tags[i].kind = "record" /\ tags[k] = tags[i]
            /\ tags[j].kind = "record") => tags[j].id = tags[i].id

(***************************************************************************)
(* C13: when several threads call Logger::log on one Logger, the pieces of *)
(* two records are never interleaved, on the error stream or in a file:    *)
(* between two pieces of one record's line there is no piece of another    *)
(* record, and while a thread writes its line no other thread is writing.  *)
(***************************************************************************)
C13_RecordsNotInterleaved ==
    /\ Uninterrupted(cerr_by)
    /\ \A p \in Paths : Uninterrupted(fs_by[p])
    /\ \A t, u \in Threads : (tpc[t] = "write" /\ tpc[u] = "write") => t = u

C13_Witness ==
    \E t, u \in Threads :
        /\ tpc[t] = "write"
        /\ tcall[t].pending # <<>>
        /\ \E i \in 1..Len(cerr_by) : cerr_by[i] = WrittenBy(tcall[t].id, "record")
        /\ tpc[u] = "lock"
        /\ tcall[u].stream = "cerr"

(***************************************************************************)
(* Helpers of the properties on set_log_file.                              *)
(***************************************************************************)
SetLogFileCalled == Len(set_file_calls') = Len(set_file_calls) + 1

LastSetLogFile == set_file_calls[Len(set_file_calls)]

\* a Logger::log call in mode File or Both has just written its record
FileRecordWritten ==
    LogCalled /\ LastCall.outcome = "written" /\ output_mode_ \in {"File", "Both"}

\* the line of the record just written is at the end of the file path
AppendedTo(path) ==
    /\ IsPrefix(fs[path], fs'[path])
    /\ fs'[path] # fs[path]
    /\ LET added == Appended(fs[path], fs'[path])
       IN  SubSeq(added, Len(added) - 4, Len(added)) = PlainLine(LastCall)

(***************************************************************************)
(* C14: after set_log_file(p2) on a Logger whose log file is open on p1,   *)
(* every record written in mode File or Both is appended to p2 and         *)
(* nothing more is written to p1.                                          *)
(***************************************************************************)
C14_ReopenReplacesSink ==
    [][(FileRecordWritten /\ set_file_calls # <<>> /\ LastSetLogFile.was_open
          /\ Openable(LastSetLogFile.filename)
          /\ LastSetLogFile.filename # LastSetLogFile.was_path) =>
          /\ AppendedTo(LastSetLogFile.filename)
          /\ fs'[LastSetLogFile.was_path] = fs[LastSetLogFile.was_path]
      ]_vars

(***************************************************************************)
(* C15: after a set_log_file(path) whose path cannot be opened, the log    *)
(* file is not open, whether or not it was open before the call, and every *)
(* record written afterwards in mode File or Both is on the error stream.  *)
(***************************************************************************)
C15_FailedOpenFallsBackToCerr ==
    /\ []((set_file_calls # <<>> /\ ~Openable(LastSetLogFile.filename))
             => ~log_file_.is_open)
    /\ [][(FileRecordWritten /\ set_file_calls # <<>>
             /\ ~Openable(LastSetLogFile.filename)) =>
             Undecorated(Appended(cerr, cerr')) = PlainLine(LastCall)
        ]_vars

(***************************************************************************)
(* C16: set_log_file called twice with the same path leaves the content of *)
(* the file as it was, and a record written afterwards in mode File or     *)
(* Both is appended after that content.                                    *)
(***************************************************************************)
C16_SamePathTwiceKeepsAppending ==
    /\ [][SetLogFileCalled => fs' = fs]_vars
    /\ [][(FileRecordWritten /\ Len(set_file_calls) >= 2
             /\ LastSetLogFile.filename = set_file_calls[Len(set_file_calls) - 1].filename
             /\ Openable(LastSetLogFile.filename)) =>
             AppendedTo(LastSetLogFile.filename)
        ]_vars

(***************************************************************************)
(* Helpers of the properties on the written line.                          *)
(***************************************************************************)
\* what a Logger::log step added to the error stream and to the log file
OnCerr == Appended(cerr, cerr')

OnFile == IF log_file_.path \in Paths
          THEN Appended(fs[log_file_.path], fs'[log_file_.path]) ELSE <<>>

\* the line of the record c with its level name wrapped in code and reset
ColoredLine(c, text) ==
    <<"[", log_level_colors_[c.level], logLevelToString(c.level), ResetCode, "] ",
      text, "\n">>

\* the line of the record c without decoration
BareLine(c, text) == <<"[", logLevelToString(c.level), "] ", text, "\n">>

(***************************************************************************)
(* C17: the line a Logger::log call writes to the error stream has its     *)
(* level name between the level's color code and the reset sequence if     *)
(* and only if the error stream is cached as a terminal and the global     *)
(* color flag is set, and is the bare line otherwise; what the call writes *)
(* to the log file holds no color code and no reset sequence.              *)
(***************************************************************************)
C17_DecorationIffTerminalAndFlag ==
    [][(LogCalled /\ LastCall.outcome = "written") =>
          LET text == CallFormatter(formatter_, LastCall.file, LastCall.line,
                                    LastCall.msg).text
          IN  /\ OnCerr # <<>> =>
                    IF is_stderr_terminal_ /\ is_global_colored
                    THEN OnCerr = ColoredLine(LastCall, text)
                    ELSE OnCerr = BareLine(LastCall, text)
              /\ \A i \in 1..Len(OnFile) :
                    /\ OnFile[i] # ResetCode
                    /\ OnFile[i] \notin {log_level_colors_[level] : level \in Levels}
      ]_vars

C17_Witness ==
    /\ calls # <<>>
    /\ calls[Len(calls)].outcome = "written"
    /\ is_stderr_terminal_
    /\ is_global_colored
    /\ output_mode_ = "Console"
    /\ Len(cerr) >= 7
    /\ cerr[Len(cerr) - 3] = ResetCode
    /\ \E i \in 1..Len(cerr) : cerr[i] \in ColorInputs

(***************************************************************************)
(* C18: with the custom formatter installed, by the configuration or by    *)
(* set_formatter, each line a Logger::log call writes is, decoration       *)
(* apart, `[<LEVEL>] ` followed by the string the formatter returns for    *)
(* the record and a newline, and the call invokes the formatter once.      *)
(***************************************************************************)
C18_CustomFormatterLineExact ==
    [][(LogCalled /\ LastCall.outcome = "written" /\ formatter_ = CustomFormatterId) =>
          LET line == BareLine(LastCall, custom_formatter(LastCall.file, LastCall.line,
                                                          LastCall.msg))
          IN  /\ Undecorated(OnCerr) \in {<<>>, line}
              /\ OnFile \in {<<>>, line, line \o line}
              /\ (OnCerr # <<>> \/ OnFile # <<>>)
              /\ formatter_calls' = formatter_calls + 1
      ]_vars

C18_Witness ==
    /\ Len(calls) >= 2
    /\ calls[Len(calls)].outcome = "written"
    /\ calls[Len(calls)].file # ""
    /\ formatter_ = CustomFormatterId
    /\ formatter_calls = Len(calls)
    /\ nops > Len(calls)
    /\ \E i \in 1..Len(cerr) :
          cerr[i] = custom_formatter(calls[Len(calls)].file, calls[Len(calls)].line,
                                     calls[Len(calls)].msg)

(***************************************************************************)
(* Helpers of the property on the default formatter.                       *)
(***************************************************************************)
\* the decimal numeral of a line number between 1 and 9
Numeral == <<"1", "2", "3", "4", "5", "6", "7", "8", "9">>

(***************************************************************************)
(* C19: the default formatter returns the file name, a colon, the line     *)
(* number, a space and the message exactly when the file name is not empty *)
(* and the line is greater than 0; otherwise, the file name being empty or *)
(* the line being 0 or negative, it returns the message alone.             *)
(***************************************************************************)
C19_DefaultFormatterPrefix ==
    \A i \in 1..Len(formatted) :
        LET c == formatted[i]
        IN  IF c.file # "" /\ c.line > 0
            THEN c.line <= 9 => c.result = c.file \o ":" \o Numeral[c.line] \o " " \o c.msg
            ELSE c.result = c.msg

C19_Witness ==
    /\ Len(formatted) = 2
    /\ formatted[1].file # "" /\ formatted[1].line > 0 /\ formatted[1].msg # ""
    /\ formatted[1].result # formatted[1].msg
    /\ formatted[2].file # "" /\ formatted[2].line < 0
    /\ formatted[2].result = formatted[2].msg

(***************************************************************************)
(* C21: when the handler that handle_error invokes throws, handle_error    *)
(* does not catch it: the call ends with the handler's exception going to  *)
(* the caller, and by then the stack trace is on the error stream, after   *)
(* the line of the error record when that record was written.              *)
(***************************************************************************)
C21_HandlerFailurePropagates ==
    [][(HandleErrorCalled /\ LastHandleError.outcome # "log_propagated"
          /\ NewInvocations # <<>>
          /\ NewInvocations[Len(NewInvocations)].handler = ThrowingHandler) =>
          /\ LastHandleError.outcome = "handler_threw"
          /\ LET out == Appended(cerr, cerr')
                 trace == <<"Stack trace:", "\n">>
             IN  IF LastCall.outcome = "written"
                 THEN /\ Len(out) >= 7
                      /\ SubSeq(out, 1, 5) = PlainLine(LastCall)
                      /\ SubSeq(out, 6, 7) = trace
                 ELSE \E i \in 1..Len(out) : SubSeq(out, i, i + 1) = trace
      ]_vars

C21_Witness ==
    /\ he_calls # <<>>
    /\ he_calls[Len(he_calls)].outcome = "handler_threw"
    /\ calls[Len(calls)].outcome = "written"
    /\ handler_calls[Len(handler_calls)].handler = ThrowingHandler
    /\ handlers_[he_calls[Len(he_calls)].kind] = ThrowingHandler
    /\ cerr[Len(cerr)] = "\n"

(***************************************************************************)
(* C22: a warn record logged with a file name and a line is emitted, with  *)
(* the default formatter, as `[WARN] file:line message`: the tag of        *)
(* LogLevel::warn is WARN.                                                 *)
(***************************************************************************)
C22_WarnTagIsWARN ==
    [][(LogCalled /\ LastCall.level = "warn" /\ LastCall.outcome = "written"
          /\ LastCall.file # "" /\ LastCall.line > 0
          /\ formatter_ = DefaultFormatterId /\ output_mode_ = "Console") =>
          Undecorated(Appended(cerr, cerr')) =
             <<"[", "WARN", "] ",
               LastCall.file \o ":" \o IntToString(LastCall.line) \o " " \o LastCall.msg,
               "\n">>
      ]_vars

(***************************************************************************)
(* Helpers of the properties on the progress of the AsyncLogger.           *)
(***************************************************************************)
\* every Logger::log call returns: the formatter throws nothing, or an
\* exception that Logger::log catches
LogReturns == formatter_ # ThrowsOtherId

(***************************************************************************)
(* C23: shutdown terminates.  Under fair scheduling, every Logger::log     *)
(* call returning, once the destructor has set stop_thread_ and notified,  *)
(* the worker exits and join returns; the stop notification is not lost:   *)
(* a worker still suspended after it has a wake-up pending.                *)
(***************************************************************************)
C23_ShutdownTerminates ==
    /\ [](LogReturns => ((dpc = "notified" /\ wpc = "wait") => cv_signal))
    /\ (LogReturns /\ dpc = "notified") ~> (wpc = "done" /\ dpc = "joined")

C23_Witness ==
    /\ LogReturns
    /\ dpc = "notified"
    /\ wpc = "wait"
    /\ cv_signal
    /\ stop_thread_

(***************************************************************************)
(* C24: under fair scheduling, every Logger::log call returning, each      *)
(* entry enqueued before the stop request is eventually forwarded to the   *)
(* Logger; no wake-up is lost: a worker suspended while the queue holds an *)
(* entry has a wake-up pending, and it does not stay suspended.            *)
(***************************************************************************)
C24_EnqueuedEventuallyForwarded ==
    /\ [](LogReturns => ((wpc = "wait" /\ log_queue_ # <<>>) => cv_signal))
    /\ (LogReturns /\ wpc = "wait" /\ log_queue_ # <<>>) ~> (wpc # "wait")
    /\ \A k \in 1..MaxEntries :
          (LogReturns /\ ~stop_thread_ /\ Len(enqueued) >= k) ~> (Len(forwarded) >= k)

C24_Witness ==
    /\ LogReturns
    /\ ~stop_thread_
    /\ wpc = "wait"
    /\ cv_signal
    /\ Len(log_queue_) >= 1
    /\ Len(forwarded) >= 1

(***************************************************************************)
(* C25: in output mode File or Both with the log file not open, no path    *)
(* being configured or the open of the constructor having failed, a        *)
(* Logger::log call that writes its record writes its line exactly once to *)
(* the error stream and nothing to a file.                                 *)
(***************************************************************************)
C25_FileNotOpenFallsBackToCerr ==
    [][(LogCalled /\ LastCall.outcome = "written"
          /\ output_mode_ \in {"File", "Both"} /\ ~log_file_.is_open) =>
          /\ Undecorated(Appended(cerr, cerr')) = PlainLine(LastCall)
          /\ NumLines(Appended(cerr, cerr')) = 1
          /\ fs' = fs
      ]_vars

C25_Witness ==
    /\ calls # <<>>
    /\ calls[Len(calls)].outcome = "written"
    /\ output_mode_ = "Both"
    /\ ~log_file_.is_open
    /\ log_file_.fail
    /\ NumLines(cerr) = Len(calls)
    /\ \A p \in Paths : fs[p] = <<>>

(***************************************************************************)
(* C26: in output mode Console no step of Logger::log changes the content  *)
(* of a file, also when a log file was configured and is open.             *)
(***************************************************************************)
C26_ConsoleLeavesFileUnchanged ==
    [][output_mode_ = "Console" => (fs' = fs /\ fs_by' = fs_by)]_vars

C26_Witness ==
    /\ output_mode_ = "Console"
    /\ log_file_.is_open
    /\ ~log_file_.fail
    /\ calls # <<>>
    /\ calls[Len(calls)].outcome = "written"
    /\ \E i \in 1..Len(cerr_by) : cerr_by[i].kind = "record"
    /\ fs[log_file_.path] = <<>>

(***************************************************************************)
(* C27: nothing that a Logger writes outside a record line, the lines of   *)
(* the stack trace, the message of the default handler, the diagnostic of  *)
(* the catch block, appears on the error stream between two pieces of a    *)
(* record line that a concurrent Logger::log call is writing.              *)
(***************************************************************************)
C27_NothingInsideRecordLine ==
    \A i, j, k \in 1..Len(cerr_by) :
        (i < j /\ j < k /\ cerr_by[i].kind = "record" /\ cerr_by[k] = cerr_by[i])
            => cerr_by[j] = cerr_by[i]

(***************************************************************************)
(* Helpers of the property on a failing entry.                             *)
(***************************************************************************)
\* the formatter throws std::exception for some records, and nothing else
ThrowsStdOnly == formatter_ \in {ThrowsStdId, ThrowsOnM2Id}

(***************************************************************************)
(* C28: a std::exception raised while the worker logs one queued entry     *)
(* loses that entry only.  The worker does not terminate; the step in      *)
(* which Logger::log caught the exception pops the entry and goes on with  *)
(* the queue; the entries are handed to Logger::log in enqueue order, each *)
(* once, and every entry whose formatting does not fail is written; under  *)
(* fair scheduling every entry enqueued before the stop request reaches    *)
(* Logger::log.                                                            *)
(***************************************************************************)
C28_FailedEntryOnlyIsLost ==
    /\ [](ThrowsStdOnly => wpc # "terminated")
    /\ [][(ThrowsStdOnly /\ LogCalled /\ LastCall.outcome = "caught") =>
            /\ wpc' = "drain"
            /\ log_queue_' = Tail(log_queue_)
            /\ Appended(cerr, cerr') = <<"Logging exception: ", "bad format", "\n">>
        ]_vars
    /\ [](ThrowsStdOnly =>
            /\ Len(calls) <= Len(enqueued)
            /\ \A i \in 1..Len(calls) :
                  /\ calls[i].level = enqueued[i].level
                  /\ calls[i].msg = enqueued[i].msg
                  /\ (formatter_ = ThrowsOnM2Id /\ calls[i].msg # "m2")
                        => calls[i].outcome = "written")
    /\ \A k \in 1..MaxEntries :
          (ThrowsStdOnly /\ ~stop_thread_ /\ Len(enqueued) >= k) ~> (Len(calls) >= k)

C28_Witness ==
    /\ formatter_ = ThrowsOnM2Id
    /\ Len(calls) >= 2
    /\ calls[1].outcome = "caught"
    /\ calls[2].outcome = "written"
    /\ wpc \in {"drain", "top", "wait"}

(***************************************************************************)
(* C29: on the error stream the reset sequence is written after a level    *)
(* name only when the color code of the level was written before that      *)
(* name, whenever another thread assigns the global color flag.            *)
(***************************************************************************)
C29_ResetOnlyAfterColorCode ==
    \A i \in 1..Len(cerr) :
        cerr[i] = ResetCode =>
            /\ i >= 3
            /\ cerr[i - 2] \in {log_level_colors_[level] : level \in Levels}
            /\ cerr_by[i - 2] = cerr_by[i]

(***************************************************************************)
(* C30: a formatter that submits a record through AsyncLogger::log of the  *)
(* same AsyncLogger completes without deadlock: the logger_.log call that  *)
(* the worker makes for a dequeued entry ends with the nested record       *)
(* enqueued and the entry written, and the worker goes on with the queue.  *)
(***************************************************************************)
C30_ReentrantFormatterCompletes ==
    /\ [](formatter_ = ReentrantId => wpc # "deadlocked")
    /\ [][(formatter_ = ReentrantId /\ wpc = "in_log" /\ wpc' # "in_log") =>
            /\ wpc' = "drain"
            /\ Len(enqueued') = Len(enqueued) + 1
            /\ LastCall.outcome = "written"
        ]_vars

====
